---- MODULE Spec2Model ----
(***************************************************************************)
(* Player controller of the platformer (assets/js/platformer2/Player.js).  *)
(*                                                                         *)
(* Positions are pixels.  The screen width is a multiple of 5 and the      *)
(* bottom measurement a multiple of 20, so that .80 * innerWidth and the   *)
(* jump fractions .50/.40/.30/.15 * bottom are whole numbers (the products *)
(* are exact in IEEE doubles for these values as well).  Parallax speeds   *)
(* are kept in tenths: 0.4 is 4, 0.1 is 1; jump fractions in hundredths.   *)
(*                                                                         *)
(* Every handler runs to completion (one JavaScript thread): an action is  *)
(* one handler.  update is split at its call of super.update(), so that    *)
(* the position at the end of the player's own step is a state.            *)
(***************************************************************************)
EXTENDS Integers, FiniteSets, Sequences, TLC

\* ---------------------------------------------------------------- bounds
WidthFifths == 2        \* GameEnv.innerWidth / 5
Speed == 1              \* Character.speed
BottomUnits == 1        \* Character.bottom / 20
Gravity == 10           \* GameEnv.gravity
MaxTimers == 1          \* pending tube callbacks of one stage
Beyond == 3             \* the player is followed up to Beyond past the screen
MaxHops == 2            \* platform hops followed above an easy jump
MaxFrames == 4          \* frames of a dash comparison
MaxPlayers == 2         \* players constructed over the level reloads

\* ------------------------------------------------------ program constants
DashFactor == 3
Nudge == 10
HillsSpeed == 4
MountainsSpeed == 1
JumpEasy == 50
JumpNormal == 40
JumpHard == 30
JumpPlatform == 15

innerWidth == 5 * WidthFifths
speed == Speed
moveSpeedTwice == speed * 2
moveSpeed == speed * DashFactor
bottom == 20 * BottomUnits
tubeX == (80 * innerWidth) \div 100
MaxX == innerWidth + Beyond
MinX == 0 - Nudge
MinY == bottom - (bottom * JumpEasy) \div 100
               - MaxHops * ((bottom * JumpPlatform) \div 100)

\* own properties of playerData that a keyboard event can name
playerData == {"w", "a", "s", "d"}
\* the keys a keyboard event can carry: the descriptors' keys and one other
EventKeys == playerData \cup {"q"}
Difficulties == {"easy", "normal", "hard"}
OtherIds == {"tube", "goomba", "flyingGoomba", "jumpPlatform", "coin"}
\* touch-point records: the other object's id, faces and x, and the own top
TouchPoints ==
    {tp \in [id : OtherIds, left : BOOLEAN, right : BOOLEAN,
             bottom : BOOLEAN, top : BOOLEAN, x : {tubeX, innerWidth - 1}] :
        tp.id # "tube" => tp.x = tubeX}
NoTouch ==
    [id |-> "none", left |-> FALSE, right |-> FALSE, bottom |-> FALSE,
     top |-> FALSE, x |-> 0]
\* two runs of the movement step from one start: direction key alone, and
\* direction key with the dash key
NoRace ==
    [key |-> "none", left |-> TRUE, right |-> TRUE, start |-> 0, n |-> 0,
     plain |-> 0, dash |-> 0, clamped |-> FALSE]

VARIABLES x, y, pressedKeys, isIdle, directionKey, movement, gravityEnabled,
          isDying, backgroundHillsSpeed, backgroundMountainsSpeed, invincible,
          difficulty, listening, isDestroyed, tubeTimer1, tubeTimer2,
          deathTimer, transitioning, collisionData, pc, last, race,
          generation, listeners

vars == <<x, y, pressedKeys, isIdle, directionKey, movement, gravityEnabled,
          isDying, backgroundHillsSpeed, backgroundMountainsSpeed, invincible,
          difficulty, listening, isDestroyed, tubeTimer1, tubeTimer2,
          deathTimer, transitioning, collisionData, pc, last, race,
          generation, listeners>>

keyVars == <<pressedKeys, isIdle, directionKey>>
parallaxVars == <<backgroundHillsSpeed, backgroundMountainsSpeed>>
posVars == <<x, y>>
collVars == <<movement, gravityEnabled, isDying, invincible, collisionData>>
timerVars == <<tubeTimer1, tubeTimer2, deathTimer, transitioning>>
\* generation numbers the players constructed so far, listeners holds the
\* players whose keydown and keyup listeners the document has registered
lifeVars == <<difficulty, listening, isDestroyed, race, generation, listeners>>

\* ---------------------------------------------------------------- helpers
isKeyActionLeft(key) == key = "a"
isKeyActionRight(key) == key = "d"
isKeyActionDash(key) == key = "s"

isActiveAnimation(key, pk, idle) == key \in pk /\ ~idle

isActiveGravityAnimation(key, pk, idle, py, mv) ==
    isActiveAnimation(key, pk, idle) /\ (bottom <= py \/ mv.down = FALSE)

\* setAnimation: the facing direction it leaves (frame selection is rendering)
setAnimation(key, dk) ==
    IF isKeyActionLeft(key) THEN key
    ELSE IF isKeyActionRight(key) THEN key
    ELSE dk

\* ------------------------------------------------------------ constructor
InitPlayer ==
    /\ x \in {1, 3, innerWidth \div 2}
    /\ y = bottom
    /\ pressedKeys = {}
    /\ isIdle = TRUE
    /\ directionKey = "d"
    /\ movement = [up |-> TRUE, down |-> TRUE, left |-> TRUE, right |-> TRUE]
    /\ gravityEnabled = TRUE
    /\ isDying = FALSE
    /\ backgroundHillsSpeed = 0
    /\ backgroundMountainsSpeed = 0
    /\ invincible = FALSE
    /\ difficulty \in Difficulties
    /\ listening = TRUE
    /\ isDestroyed = FALSE
    /\ generation = 1
    /\ listeners = {1}
    /\ tubeTimer1 = 0
    /\ tubeTimer2 = 0
    /\ deathTimer = 0
    /\ transitioning = 0
    /\ collisionData = NoTouch
    /\ pc = "idle"
    /\ last = [op |-> "constructor"]

Init == InitPlayer /\ race = NoRace

\* ------------------------------------------------------------ key events
\* playerData.hasOwnProperty(event.key)
hasOwnPropertyAny(key) == TRUE
hasOwnProperty(key) == key \in playerData

\* handleKeyDown: parallax speeds after the press
KeyDownHillsLatched(key, px, hills) ==
    IF hills # 0 THEN hills
    ELSE IF isKeyActionLeft(key) /\ px > 2 THEN -HillsSpeed
    ELSE IF isKeyActionRight(key) THEN HillsSpeed
    ELSE hills

KeyDownHills(key, px, hills) ==
    IF isKeyActionLeft(key) /\ px > 2 THEN -HillsSpeed
    ELSE IF isKeyActionRight(key) THEN HillsSpeed
    ELSE hills

KeyDownMountainsUnsigned(key, px, mountains) ==
    IF isKeyActionLeft(key) /\ px > 2 THEN MountainsSpeed
    ELSE IF isKeyActionRight(key) THEN MountainsSpeed
    ELSE mountains

KeyDownMountains(key, px, mountains) ==
    IF isKeyActionLeft(key) /\ px > 2 THEN -MountainsSpeed
    ELSE IF isKeyActionRight(key) THEN MountainsSpeed
    ELSE mountains

handleKeyDown(key) ==
    /\ pc = "idle"
    /\ listening
    /\ IF hasOwnProperty(key)
       THEN /\ IF key \notin pressedKeys
               THEN /\ pressedKeys' = pressedKeys \cup {key}
                    /\ directionKey' = setAnimation(key, directionKey)
                    /\ isIdle' = FALSE
               ELSE UNCHANGED keyVars
            /\ backgroundHillsSpeed' = KeyDownHills(key, x, backgroundHillsSpeed)
            /\ backgroundMountainsSpeed' =
                   KeyDownMountains(key, x, backgroundMountainsSpeed)
       ELSE UNCHANGED <<keyVars, parallaxVars>>
    /\ last' = [op |-> "keydown", key |-> key]
    /\ UNCHANGED <<posVars, collVars, timerVars, lifeVars, pc>>

\* handleKeyUp: lines 320-322
KeyUpKeepsKey(key, pk) == pk
KeyUpPressedKeys(key, pk) == pk \ {key}

\* line 325
KeyUpIdleKept(idle) == idle
KeyUpIdle(idle) == TRUE

KeyUpHills(key, hills) ==
    IF isKeyActionLeft(key) \/ isKeyActionRight(key) \/ isKeyActionDash(key)
    THEN 0 ELSE hills

KeyUpMountains(key, mountains) ==
    IF isKeyActionLeft(key) \/ isKeyActionRight(key) \/ isKeyActionDash(key)
    THEN 0 ELSE mountains

handleKeyUp(key) ==
    /\ pc = "idle"
    /\ listening
    /\ IF hasOwnProperty(key)
       THEN /\ pressedKeys' = KeyUpPressedKeys(key, pressedKeys)
            /\ directionKey' = setAnimation(key, directionKey)
            /\ isIdle' = KeyUpIdle(isIdle)
            /\ backgroundHillsSpeed' = KeyUpHills(key, backgroundHillsSpeed)
            /\ backgroundMountainsSpeed' =
                   KeyUpMountains(key, backgroundMountainsSpeed)
       ELSE UNCHANGED <<keyVars, parallaxVars>>
    /\ last' = [op |-> "keyup", key |-> key,
                follows |-> (last = [op |-> "keydown", key |-> key])]
    /\ UNCHANGED <<posVars, collVars, timerVars, lifeVars, pc>>

KeyDown == \E key \in EventKeys : handleKeyDown(key)
KeyUp == \E key \in EventKeys : handleKeyUp(key)

\* ------------------------------------------------------------------ update
\* lines 120-127: the lateral-movement rules
Step(pk, idle) == IF isActiveAnimation("s", pk, idle) THEN moveSpeed ELSE speed

LateralX(px, pk, idle, mv) ==
    LET x1 == IF isActiveAnimation("a", pk, idle) /\ mv.left
              THEN px - Step(pk, idle) ELSE px
    IN  IF isActiveAnimation("d", pk, idle) /\ mv.right
        THEN x1 + Step(pk, idle) ELSE x1

\* lines 131-145: the jump
JumpFractionSwapped(diff) ==
    IF diff = "easy" THEN JumpEasy
    ELSE IF diff = "normal" THEN JumpHard
    ELSE JumpNormal

JumpFraction(diff) ==
    IF diff = "easy" THEN JumpEasy
    ELSE IF diff = "normal" THEN JumpNormal
    ELSE JumpHard

JumpY(py, pk, idle, mv, grav, diff) ==
    IF isActiveGravityAnimation("w", pk, idle, py, mv)
    THEN IF grav THEN py - (bottom * JumpFraction(diff)) \div 100
         ELSE IF mv.down = FALSE THEN py - (bottom * JumpPlatform) \div 100
         ELSE py
    ELSE py

\* lines 147-151: keep the player from dashing through the tube
TubeClampOpen(px) == IF px > tubeX /\ px < innerWidth THEN tubeX - 1 ELSE px
TubeClamp(px) == IF px >= tubeX /\ px <= innerWidth THEN tubeX - 1 ELSE px

\* lines 153-159: keep the player on the screen
LeftClampZero(px) == IF px < 0 THEN 0 ELSE px
LeftClamp(px) == IF px < 0 THEN 1 ELSE px

\* lines 120-127 and 147-156: x at the end of the player's own step
MovementX(px, pk, idle, mv) == LeftClamp(TubeClamp(LateralX(px, pk, idle, mv)))

update ==
    /\ pc = "idle"
    /\ ~isDestroyed
    /\ x \in MinX..MaxX
    /\ y >= MinY
    /\ LET lx == LateralX(x, pressedKeys, isIdle, movement)
       IN  /\ x' = MovementX(x, pressedKeys, isIdle, movement)
           /\ y' = JumpY(y, pressedKeys, isIdle, movement, gravityEnabled,
                         difficulty)
           /\ IF TubeClamp(lx) < 0
              THEN backgroundHillsSpeed' = 0 /\ backgroundMountainsSpeed' = 0
              ELSE UNCHANGED parallaxVars
           /\ last' = [op |-> "update", lateral |-> lx,
                       jump |-> isActiveGravityAnimation("w", pressedKeys,
                                    isIdle, y, movement)]
    /\ pc' = "super"
    /\ UNCHANGED <<keyVars, collVars, timerVars, lifeVars>>

\* Character.update, reached through super.update(): gravity integration
superUpdate ==
    /\ pc = "super"
    /\ y' = IF bottom > y /\ gravityEnabled THEN y + Gravity ELSE y
    /\ pc' = "idle"
    /\ UNCHANGED <<x, keyVars, parallaxVars, collVars, timerVars, lifeVars,
                   last>>

\* ----------------------------------------------------------------- destroy
\* lines 172-179 hold no clearTimeout: a pending callback stays pending
pendingCancelled(n) == 0
pendingAfterDestroy(n) == n

\* lines 174-175: both listeners of this player leave the document
removeEventListenerOther(ls, g) == ls \ {g - 1}
removeEventListener(ls, g) == ls \ {g}

\* lines 36-37
addEventListener(ls, g) == ls \cup {g}

destroy ==
    /\ pc = "idle"
    /\ ~isDestroyed
    /\ listeners' = removeEventListener(listeners, generation)
    /\ listening' = (generation \in listeners')
    /\ isDestroyed' = TRUE
    /\ tubeTimer1' = pendingAfterDestroy(tubeTimer1)
    /\ tubeTimer2' = pendingAfterDestroy(tubeTimer2)
    /\ deathTimer' = pendingAfterDestroy(deathTimer)
    /\ last' = [op |-> "destroy"]
    /\ UNCHANGED <<posVars, keyVars, parallaxVars, collVars, transitioning,
                   difficulty, race, generation, pc>>

\* a level reload constructs the next player once the old one is destroyed;
\* the model follows the delayed callbacks of one player, so the next player
\* is constructed here when none of the old one is pending
reloadConstructs ==
    /\ isDestroyed
    /\ generation < MaxPlayers
    /\ tubeTimer1 = 0 /\ tubeTimer2 = 0 /\ deathTimer = 0 /\ transitioning = 0

\* lines 20-47
construct ==
    /\ pc = "idle"
    /\ reloadConstructs
    /\ generation' = generation + 1
    /\ listeners' = addEventListener(listeners, generation')
    /\ listening' = (generation' \in listeners')
    /\ isDestroyed' = FALSE
    /\ x' \in {1, 3, innerWidth \div 2}
    /\ y' = bottom
    /\ pressedKeys' = {}
    /\ isIdle' = TRUE
    /\ directionKey' = "d"
    /\ movement' = [up |-> TRUE, down |-> TRUE, left |-> TRUE, right |-> TRUE]
    /\ gravityEnabled' = TRUE
    /\ isDying' = FALSE
    /\ invincible' = FALSE
    /\ collisionData' = NoTouch
    /\ last' = [op |-> "constructor"]
    /\ UNCHANGED <<parallaxVars, timerVars, difficulty, race, pc>>

\* --------------------------------------------------------- collisionAction
isEnemy(id) == id \in {"goomba", "flyingGoomba"}
direction(tp) == IF tp.left THEN -1 ELSE 1

\* line 222: the value of the assignment GameEnv.invincible = true
invincibleCompared(inv) == inv = TRUE
invincibleCondition(inv) == TRUE

\* lines 220-222: the branch that runs the death sequence
isLethal(tp, diff, inv) ==
    isEnemy(tp.id) /\ diff # "easy" /\ invincibleCondition(inv)

\* line 232: the guard of the respawn
startsRespawnUnguarded(tp, diff, inv, dying) == isLethal(tp, diff, inv)
startsRespawn(tp, diff, inv, dying) == isLethal(tp, diff, inv) /\ dying = FALSE

\* lines 190-215: tube blocking, and the reset by any other target
TubeMovementSameSide(tp, mv) ==
    IF tp.id = "tube"
    THEN [mv EXCEPT !.left = IF tp.left THEN FALSE ELSE @,
                    !.right = IF tp.right THEN FALSE ELSE @]
    ELSE [mv EXCEPT !.left = TRUE, !.right = TRUE]

TubeMovement(tp, mv) ==
    IF tp.id = "tube"
    THEN [mv EXCEPT !.right = IF tp.left THEN FALSE ELSE @,
                    !.left = IF tp.right THEN FALSE ELSE @]
    ELSE [mv EXCEPT !.left = TRUE, !.right = TRUE]

entersTube(tp) == tp.id = "tube" /\ tp.bottom

\* lines 243-267: the one-way platform, and falling off its edge
PlatformMovementStays(tp, mv) ==
    IF tp.id = "jumpPlatform"
    THEN [mv EXCEPT !.right = IF tp.left THEN FALSE ELSE @,
                    !.left = IF tp.right THEN FALSE ELSE @,
                    !.down = IF tp.top THEN FALSE ELSE @]
    ELSE mv

PlatformMovement(tp, mv) ==
    IF tp.id = "jumpPlatform"
    THEN [mv EXCEPT !.right = IF tp.left THEN FALSE ELSE @,
                    !.left = IF tp.right THEN FALSE ELSE @,
                    !.down = IF tp.top THEN FALSE ELSE @]
    ELSE IF mv.down = FALSE THEN [mv EXCEPT !.down = TRUE]
    ELSE mv

PlatformGravityTopOnly(tp, mv, grav) ==
    IF tp.id = "jumpPlatform"
    THEN IF tp.top THEN FALSE ELSE grav
    ELSE IF mv.down = FALSE THEN TRUE
    ELSE grav

PlatformGravity(tp, mv, grav) ==
    IF tp.id = "jumpPlatform"
    THEN IF tp.top THEN FALSE
         ELSE IF tp.left \/ tp.right THEN TRUE
         ELSE grav
    ELSE IF mv.down = FALSE THEN TRUE
    ELSE grav

\* lines 218-222: the push on easy difficulty
EnemyXToward(tp, diff, px) ==
    IF isEnemy(tp.id) /\ diff = "easy" THEN px - Nudge * direction(tp) ELSE px

EnemyX(tp, diff, px) ==
    IF isEnemy(tp.id) /\ diff = "easy" THEN px + Nudge * direction(tp) ELSE px

collisionAction(tp) ==
    /\ pc = "idle"
    /\ ~isDestroyed
    /\ x \in MinX..MaxX
    /\ collisionData' = tp
    /\ x' = EnemyX(tp, difficulty, IF entersTube(tp) THEN tp.x ELSE x)
    /\ movement' = PlatformMovement(tp, TubeMovement(tp, movement))
    /\ gravityEnabled' =
           PlatformGravity(tp, movement,
                           IF entersTube(tp) THEN FALSE ELSE gravityEnabled)
    /\ IF entersTube(tp)
       THEN /\ tubeTimer1 < MaxTimers
            /\ tubeTimer1' = tubeTimer1 + 1
       ELSE UNCHANGED tubeTimer1
    /\ invincible' = IF isEnemy(tp.id) /\ difficulty # "easy"
                     THEN TRUE ELSE invincible
    /\ IF startsRespawn(tp, difficulty, invincible, isDying)
       THEN /\ isDying' = TRUE
            /\ deathTimer' = deathTimer + 1
       ELSE UNCHANGED <<isDying, deathTimer>>
    /\ last' = [op |-> "collisionAction", dying |-> isDying,
                invincible |-> invincible, down |-> movement.down,
                from |-> x]
    /\ UNCHANGED <<y, keyVars, parallaxVars, tubeTimer2, transitioning,
                   lifeVars, pc>>

Collision == \E tp \in TouchPoints : collisionAction(tp)

\* ------------------------------------------------------------------ timers
\* lines 204-209: the first delayed action of the tube sequence
tubeGravityKept(grav) == grav
tubeGravity(grav) == TRUE

tubeTimeout1 ==
    /\ pc = "idle"
    /\ tubeTimer1 > 0
    /\ tubeTimer2 < MaxTimers
    /\ gravityEnabled' = tubeGravity(gravityEnabled)
    /\ tubeTimer1' = tubeTimer1 - 1
    /\ tubeTimer2' = tubeTimer2 + 1
    /\ last' = [op |-> "tubeTimeout1"]
    /\ UNCHANGED <<posVars, keyVars, parallaxVars, movement, isDying,
                   invincible, collisionData, deathTimer, transitioning,
                   lifeVars, pc>>

\* lines 206-208: the second delayed action
tubeTimeout2 ==
    /\ pc = "idle"
    /\ tubeTimer2 > 0
    /\ x' = innerWidth + 1
    /\ tubeTimer2' = tubeTimer2 - 1
    /\ last' = [op |-> "tubeTimeout2"]
    /\ UNCHANGED <<y, keyVars, parallaxVars, collVars, tubeTimer1, deathTimer,
                   transitioning, lifeVars, pc>>

\* lines 235-236: the delayed callback asks for the reload of the level
\* line 236: the callback awaits the transition, isDying is not yet written
dyingNotAwaited(dying) == FALSE
dyingWhileAwaiting(dying) == dying

deathTimeout ==
    /\ pc = "idle"
    /\ deathTimer > 0
    /\ deathTimer' = deathTimer - 1
    /\ transitioning' = transitioning + 1
    /\ isDying' = dyingWhileAwaiting(isDying)
    /\ last' = [op |-> "deathTimeout"]
    /\ UNCHANGED <<posVars, keyVars, parallaxVars, movement, gravityEnabled,
                   invincible, collisionData, tubeTimer1, tubeTimer2,
                   lifeVars, pc>>

\* line 237: the awaited transition has completed
transitionDone ==
    /\ pc = "idle"
    /\ transitioning > 0
    /\ transitioning' = transitioning - 1
    /\ isDying' = FALSE
    /\ last' = [op |-> "transitionDone"]
    /\ UNCHANGED <<posVars, keyVars, parallaxVars, movement, gravityEnabled,
                   invincible, collisionData, tubeTimer1, tubeTimer2,
                   deathTimer, lifeVars, pc>>

\* ---------------------------------------------------------- specifications
Next ==
    \/ KeyDown \/ KeyUp \/ update \/ superUpdate \/ destroy
    \/ Collision \/ tubeTimeout1 \/ tubeTimeout2 \/ deathTimeout
    \/ transitionDone \/ construct

Spec == Init /\ [][Next]_vars

\* key events and the game loop, no collisions
NextInput == KeyDown \/ KeyUp \/ update \/ superUpdate \/ destroy
SpecInput == Init /\ [][NextInput]_vars

\* collisions and their delayed callbacks
NextCollide ==
    \/ Collision \/ tubeTimeout1 \/ tubeTimeout2 \/ deathTimeout
    \/ transitionDone \/ destroy
SpecCollide == Init /\ [][NextCollide]_vars

\* lateral movement against the tube: the keys a, d, s and tube collisions
LateralKeys == {"a", "d", "s"}
LateralTouch ==
    {tp \in TouchPoints :
        tp.id \in {"tube", "coin"} /\ ~tp.top /\ tp.x = tubeX}
LateralKeyDown == \E key \in LateralKeys : handleKeyDown(key)
LateralKeyUp == \E key \in LateralKeys : handleKeyUp(key)
LateralCollision == \E tp \in LateralTouch : collisionAction(tp)
InitLateral == Init /\ difficulty = "normal"
NextLateral ==
    \/ LateralKeyDown \/ LateralKeyUp \/ update \/ superUpdate
    \/ LateralCollision \/ tubeTimeout1 \/ tubeTimeout2
SpecLateral == InitLateral /\ [][NextLateral]_vars

\* jumping: the key w, platform and tube collisions
JumpKeys == {"w"}
JumpTouch ==
    {tp \in TouchPoints :
        /\ tp.id \in {"jumpPlatform", "coin", "tube"}
        /\ ~tp.left /\ ~tp.right /\ tp.x = tubeX}
JumpKeyDown == \E key \in JumpKeys : handleKeyDown(key)
JumpKeyUp == \E key \in JumpKeys : handleKeyUp(key)
JumpCollision == \E tp \in JumpTouch : collisionAction(tp)
NextJump ==
    \/ JumpKeyDown \/ JumpKeyUp \/ update \/ superUpdate
    \/ JumpCollision \/ tubeTimeout1 \/ tubeTimeout2
SpecJump == Init /\ [][NextJump]_vars

\* the dash comparison: n movement steps from one start, with and without
\* the dash key, under the same movement flags
DirectionKeys == {"a", "d"}
StartXs == 0..MaxX
InitDash ==
    /\ InitPlayer
    /\ \E k \in DirectionKeys, sx \in StartXs, l \in BOOLEAN, r \in BOOLEAN :
          race = [key |-> k, left |-> l, right |-> r, start |-> sx, n |-> 0,
                  plain |-> sx, dash |-> sx, clamped |-> FALSE]

dashFrame ==
    /\ race.n < MaxFrames
    /\ LET mv == [movement EXCEPT !.left = race.left, !.right = race.right]
           pl == LateralX(race.plain, {race.key}, FALSE, mv)
           dl == LateralX(race.dash, {race.key, "s"}, FALSE, mv)
           px == MovementX(race.plain, {race.key}, FALSE, mv)
           dx == MovementX(race.dash, {race.key, "s"}, FALSE, mv)
       IN  race' = [race EXCEPT !.n = @ + 1, !.plain = px, !.dash = dx,
                                !.clamped = @ \/ px # pl \/ dx # dl]
    /\ UNCHANGED <<posVars, keyVars, parallaxVars, collVars, timerVars,
                   difficulty, listening, isDestroyed, generation, listeners,
                   pc, last>>

SpecDash == InitDash /\ [][dashFrame]_vars

\* blocking by the faces of tubes and platforms: the keys a, d
BlockKeys == {"a", "d"}
BlockTouch ==
    {tp \in TouchPoints :
        tp.id \in {"tube", "jumpPlatform", "coin"} /\ ~tp.top /\ tp.x = tubeX}
BlockKeyDown == \E key \in BlockKeys : handleKeyDown(key)
BlockKeyUp == \E key \in BlockKeys : handleKeyUp(key)
BlockCollision == \E tp \in BlockTouch : collisionAction(tp)
NextBlock ==
    \/ BlockKeyDown \/ BlockKeyUp \/ update \/ superUpdate
    \/ BlockCollision \/ tubeTimeout1 \/ tubeTimeout2
SpecBlock == InitLateral /\ [][NextBlock]_vars

\* level reloads: players destroyed and constructed, keys a and d, frames
NextLife ==
    \/ BlockKeyDown \/ BlockKeyUp \/ update \/ superUpdate
    \/ destroy \/ construct
SpecLife == InitLateral /\ [][NextLife]_vars

\* the tube sequence, its timers firing once they can (setTimeout)
TubeCollision == \E tp \in LateralTouch : collisionAction(tp)
NextTube == TubeCollision \/ tubeTimeout1 \/ tubeTimeout2 \/ destroy
SpecTube ==
    /\ Init
    /\ [][NextTube]_vars
    /\ WF_vars(tubeTimeout1)
    /\ WF_vars(tubeTimeout2)

\* the death sequence, its timer firing and the transition completing
DeathTouch ==
    {tp \in TouchPoints :
        /\ tp.id \in {"goomba", "flyingGoomba", "coin"}
        /\ ~tp.right /\ ~tp.bottom /\ ~tp.top}
DeathCollision == \E tp \in DeathTouch : collisionAction(tp)
NextDeath == DeathCollision \/ deathTimeout \/ transitionDone \/ destroy
SpecDeath ==
    /\ Init
    /\ [][NextDeath]_vars
    /\ WF_vars(deathTimeout)
    /\ WF_vars(transitionDone)

\* ------------------------------------------------------------------ claims
KeyEvent(op) == last'.op = op /\ pc = "idle" /\ pc' = "idle"
CollisionStep == last'.op = "collisionAction" /\ pc = "idle" /\ pc' = "idle"
UpdateStep == pc = "idle" /\ pc' = "super"

\* C1: for every recognized key k, a key-press of k immediately followed by
\* a key-release of k leaves pressedKeys without k and isIdle true.
C1_PressThenRelease ==
    [][\A k \in playerData :
          (last = [op |-> "keydown", key |-> k] /\ KeyEvent("keyup")
             /\ last'.key = k)
          => (k \notin pressedKeys' /\ isIdle' = TRUE)]_vars

\* a release that followed the press of the same key, another key still held
C1_Witness ==
    /\ last.op = "keyup"
    /\ last.key \in playerData
    /\ last.follows
    /\ last.key \notin pressedKeys
    /\ pressedKeys # {}
    /\ isIdle

\* C2: a key-press or key-release of a key without an animation descriptor
\* leaves pressedKeys, isIdle, directionKey and both parallax speeds as
\* they were.
C2_UnrecognizedKeyIgnored ==
    [][((KeyEvent("keydown") \/ KeyEvent("keyup"))
          /\ last'.key \notin playerData)
       => UNCHANGED <<pressedKeys, isIdle, directionKey,
                      backgroundHillsSpeed, backgroundMountainsSpeed>>]_vars

\* an unrecognized key was released while a key is active and the
\* background scrolls
C2_Witness ==
    /\ last.op = "keyup"
    /\ last.key \notin playerData
    /\ pressedKeys # {}
    /\ ~isIdle
    /\ backgroundHillsSpeed # 0

\* C10: a press of the right-action key sets the hill speed to 0.4 (and the
\* mountain speed to 0.1), a release of the left, right or dash key sets both
\* to 0, and after each press the speeds are those of that press alone,
\* whichever keys are already latched: a press that sets none (any other
\* key, or the left key at x <= 2) leaves them as they were.
C10_ParallaxByLastPress ==
    [][/\ (KeyEvent("keydown") /\ last'.key = "d")
            => (backgroundHillsSpeed' = HillsSpeed
                /\ backgroundMountainsSpeed' = MountainsSpeed)
       /\ (KeyEvent("keydown") /\ last'.key = "a" /\ x > 2)
            => (backgroundHillsSpeed' = -HillsSpeed
                /\ backgroundMountainsSpeed' = -MountainsSpeed)
       /\ (KeyEvent("keydown") /\ ~(last'.key = "d")
             /\ ~(last'.key = "a" /\ x > 2))
            => UNCHANGED parallaxVars
       /\ (KeyEvent("keyup") /\ last'.key \in {"a", "d", "s"})
            => (backgroundHillsSpeed' = 0 /\ backgroundMountainsSpeed' = 0)
      ]_vars

\* the right key was pressed while the left key was latched and scrolling
\* left had been set: the right key's speeds stand
C10_Witness ==
    /\ last = [op |-> "keydown", key |-> "d"]
    /\ "a" \in pressedKeys
    /\ directionKey = "d"
    /\ backgroundHillsSpeed = HillsSpeed
    /\ backgroundMountainsSpeed = MountainsSpeed

\* C3: on a non-easy difficulty a lethal enemy contact handled while
\* isDying is true schedules no respawn, and at any moment at most one
\* respawn callback is pending (deathTimer) or in flight (transitioning).
C3_OneRespawn ==
    /\ [](deathTimer + transitioning <= 1)
    /\ [][(CollisionStep /\ isDying
             /\ isLethal(collisionData', difficulty, invincible))
          => UNCHANGED <<deathTimer, transitioning, isDying>>]_vars

\* a lethal contact was handled during the death sequence
C3_Witness ==
    /\ last.op = "collisionAction"
    /\ last.dying
    /\ isEnemy(collisionData.id)
    /\ difficulty # "easy"
    /\ isDying
    /\ deathTimer + transitioning = 1

\* C4 as stated: a jump-platform collision with the own top face touching
\* leaves movement.down and gravityEnabled false; any collision handled
\* while movement.down is false that is not a jump-platform collision with a
\* matching condition (platform left, platform right, own top) restores both.
C4_Original ==
    [][/\ (CollisionStep /\ collisionData'.id = "jumpPlatform"
             /\ collisionData'.top)
            => (movement'.down = FALSE /\ gravityEnabled' = FALSE)
       /\ (CollisionStep /\ movement.down = FALSE
             /\ ~(collisionData'.id = "jumpPlatform"
                    /\ (collisionData'.left \/ collisionData'.right
                          \/ collisionData'.top)))
            => (movement'.down = TRUE /\ gravityEnabled' = TRUE)]_vars

\* C4 amended: a jump-platform collision with the own top face touching
\* leaves movement.down and gravityEnabled false; a collision handled while
\* movement.down is false restores both when its target is not a jump
\* platform, and leaves both as they were when it is a jump platform with no
\* matching condition.
C4_OneWayPlatform ==
    [][/\ (CollisionStep /\ collisionData'.id = "jumpPlatform"
             /\ collisionData'.top)
            => (movement'.down = FALSE /\ gravityEnabled' = FALSE)
       /\ (CollisionStep /\ movement.down = FALSE
             /\ collisionData'.id # "jumpPlatform")
            => (movement'.down = TRUE /\ gravityEnabled' = TRUE)
       /\ (CollisionStep /\ movement.down = FALSE
             /\ collisionData'.id = "jumpPlatform"
             /\ ~(collisionData'.left \/ collisionData'.right
                    \/ collisionData'.top))
            => (movement'.down = FALSE /\ gravityEnabled' = gravityEnabled)
      ]_vars

\* the player stood on a platform and the next collision, with another
\* target, let it fall off
C4_Witness ==
    /\ last.op = "collisionAction"
    /\ last.down = FALSE
    /\ collisionData.id \notin {"jumpPlatform", "tube"}
    /\ movement.down = TRUE
    /\ gravityEnabled = TRUE

\* C8: on easy difficulty an enemy contact starts no death sequence and
\* schedules no reload, and moves x by exactly 10: to the right (x + 10)
\* when the enemy is met from the left (its left face is not the one
\* touched), to the left when its left face is touched.
C8_EasyNudge ==
    /\ [](difficulty = "easy" => (~isDying /\ deathTimer = 0
                                    /\ transitioning = 0))
    /\ [][(CollisionStep /\ difficulty = "easy"
             /\ isEnemy(collisionData'.id))
          => /\ isDying' = FALSE
             /\ UNCHANGED <<deathTimer, transitioning>>
             /\ x' = IF collisionData'.left THEN x - Nudge ELSE x + Nudge
         ]_vars

\* an enemy met from the left has pushed the player 10 to the right
C8_Witness ==
    /\ last.op = "collisionAction"
    /\ difficulty = "easy"
    /\ isEnemy(collisionData.id)
    /\ ~collisionData.left
    /\ x = last.from + 10
    /\ ~isDying

\* C9: on normal or hard difficulty every enemy contact handled while
\* isDying is false sets isDying and schedules one reload, whether the
\* invincibility flag was true or false before the collision.
C9_AlwaysLethal ==
    [][(CollisionStep /\ difficulty # "easy" /\ isEnemy(collisionData'.id)
          /\ isDying = FALSE)
       => (isDying' = TRUE /\ deathTimer' = deathTimer + 1
           /\ transitioning' = transitioning)]_vars

\* a death sequence started by a contact handled with the flag still false
\* (the constructor's value)
C9_Witness ==
    /\ last.op = "collisionAction"
    /\ last.dying = FALSE
    /\ last.invincible = FALSE
    /\ isEnemy(collisionData.id)
    /\ difficulty # "easy"
    /\ isDying
    /\ deathTimer = 1

\* a death sequence started by a contact handled with the flag true
C9_WitnessFlagSet ==
    /\ last.op = "collisionAction"
    /\ last.dying = FALSE
    /\ last.invincible = TRUE
    /\ isEnemy(collisionData.id)
    /\ isDying
    /\ deathTimer = 1

\* C5: in a movement step, whenever the x computed by the lateral-movement
\* rules lies in [0.8 * width, width], x at the end of the step (before the
\* base update) is 0.8 * width - 1, whichever keys are active and from
\* whichever side the range was entered.
C5_TubeClamp ==
    [][(UpdateStep /\ last'.lateral >= tubeX /\ last'.lateral <= innerWidth)
       => (5 * x' = 4 * innerWidth - 5)]_vars

\* the range was entered from the right, walking left from beyond the screen
C5_Witness ==
    /\ pc = "super"
    /\ last.op = "update"
    /\ last.lateral >= tubeX
    /\ last.lateral <= innerWidth
    /\ isActiveAnimation("a", pressedKeys, isIdle)
    /\ ~isActiveAnimation("d", pressedKeys, isIdle)
    /\ movement.left
    /\ x = tubeX - 1

\* the range was entered from the left, dashing right
C5_WitnessFromLeft ==
    /\ pc = "super"
    /\ last.op = "update"
    /\ last.lateral > tubeX
    /\ last.lateral <= innerWidth
    /\ isActiveAnimation("d", pressedKeys, isIdle)
    /\ isActiveAnimation("s", pressedKeys, isIdle)
    /\ x = tubeX - 1

C7_JumpDisplacement ==
    [][UpdateStep =>
         /\ (last'.jump /\ gravityEnabled /\ difficulty = "easy")
              => 100 * (y - y') = 50 * bottom
         /\ (last'.jump /\ gravityEnabled /\ difficulty = "normal")
              => 100 * (y - y') = 40 * bottom
         /\ (last'.jump /\ gravityEnabled /\ difficulty = "hard")
              => 100 * (y - y') = 30 * bottom
         /\ (last'.jump /\ ~gravityEnabled /\ movement.down = FALSE)
              => 100 * (y - y') = 15 * bottom
         /\ ~last'.jump => y' = y
         /\ last'.jump = ("w" \in pressedKeys /\ ~isIdle
                            /\ (bottom <= y \/ movement.down = FALSE))
         /\ bottom > 0
      ]_vars

\* a hop from a one-way platform on normal difficulty
C7_Witness ==
    /\ pc = "super"
    /\ last.op = "update"
    /\ last.jump
    /\ ~gravityEnabled
    /\ movement.down = FALSE
    /\ difficulty = "normal"
    /\ 100 * (bottom - y) = 15 * bottom

\* a jump from the ground on hard difficulty
C7_WitnessGround ==
    /\ pc = "super"
    /\ last.op = "update"
    /\ last.jump
    /\ gravityEnabled
    /\ difficulty = "hard"
    /\ 100 * (bottom - y) = 30 * bottom

\* C11 as stated: in every reachable state a press of the left-action key
\* sets the parallax speeds to (-0.4, -0.1), as a press of the right-action
\* key sets them to (0.4, 0.1).
C11_Original ==
    [][/\ (KeyEvent("keydown") /\ last'.key = "a")
            => (backgroundHillsSpeed' = -HillsSpeed
                /\ backgroundMountainsSpeed' = -MountainsSpeed)
       /\ (KeyEvent("keydown") /\ last'.key = "d")
            => (backgroundHillsSpeed' = HillsSpeed
                /\ backgroundMountainsSpeed' = MountainsSpeed)]_vars

\* C11 amended: a press of the left-action key sets the parallax speeds to
\* (-0.4, -0.1) when x > 2 and leaves them as they were when x <= 2; a press
\* of the right-action key sets them to (0.4, 0.1) in every state.
C11_LeftParallax ==
    [][/\ (KeyEvent("keydown") /\ last'.key = "a" /\ x > 2)
            => (backgroundHillsSpeed' = -HillsSpeed
                /\ backgroundMountainsSpeed' = -MountainsSpeed)
       /\ (KeyEvent("keydown") /\ last'.key = "a" /\ x <= 2)
            => UNCHANGED parallaxVars
       /\ (KeyEvent("keydown") /\ last'.key = "d")
            => (backgroundHillsSpeed' = HillsSpeed
                /\ backgroundMountainsSpeed' = MountainsSpeed)]_vars

\* the left key was pressed away from the left edge, after the right key
C11_Witness ==
    /\ last = [op |-> "keydown", key |-> "a"]
    /\ x > 2
    /\ "d" \in pressedKeys
    /\ backgroundHillsSpeed = -HillsSpeed
    /\ backgroundMountainsSpeed = -MountainsSpeed

\* the left key was pressed at the left edge: the right key's speeds stay
C11_WitnessEdge ==
    /\ last = [op |-> "keydown", key |-> "a"]
    /\ x <= 2
    /\ backgroundHillsSpeed = HillsSpeed

\* C17 as stated: after any sequence of key events of recognized keys,
\* isIdle is true if and only if pressedKeys is empty.
C17_Original == isIdle <=> (pressedKeys = {})

\* C17 amended: isIdle is true whenever pressedKeys is empty (isIdle false
\* implies a latched key), and every release of a recognized key leaves
\* isIdle true, whether or not other keys stay latched.
C17_IdleWhenNoKey ==
    /\ [](pressedKeys = {} => isIdle)
    /\ [][(KeyEvent("keyup") /\ last'.key \in playerData) => isIdle']_vars

\* the last latched key was released
C17_Witness ==
    /\ last.op = "keyup"
    /\ last.key \in playerData
    /\ pressedKeys = {}
    /\ isIdle

\* C20: at the end of every movement step (before the base update) x is
\* not negative; whenever the step computed a negative x, x is 1 and both
\* parallax speeds are 0 at the end of the step.
C20_LeftBoundary ==
    [][UpdateStep =>
         /\ x' >= 0
         /\ (last'.lateral < 0)
              => (x' = 1 /\ backgroundHillsSpeed' = 0
                  /\ backgroundMountainsSpeed' = 0)]_vars

\* a step to the left past the edge of the screen
C20_Witness ==
    /\ pc = "super"
    /\ last.op = "update"
    /\ last.lateral < 0
    /\ isActiveAnimation("a", pressedKeys, isIdle)
    /\ x = 1
    /\ backgroundHillsSpeed = 0
    /\ backgroundMountainsSpeed = 0

\* C16: destroy cancels no timer: it leaves every pending or in-flight
\* callback as it was, and a callback that fires on the destroyed player
\* still writes its state (gravityEnabled, x, isDying) or requests the
\* level reload.
C16_TimersSurviveDestroy ==
    /\ [][(~isDestroyed /\ isDestroyed') => UNCHANGED timerVars]_vars
    /\ [][isDestroyed =>
            /\ (last'.op = "tubeTimeout1" /\ tubeTimer1' < tubeTimer1)
                 => gravityEnabled' = TRUE
            /\ (last'.op = "tubeTimeout2" /\ tubeTimer2' < tubeTimer2)
                 => x' = innerWidth + 1
            /\ (last'.op = "deathTimeout" /\ deathTimer' < deathTimer)
                 => transitioning' = transitioning + 1
            /\ (last'.op = "transitionDone" /\ transitioning' < transitioning)
                 => isDying' = FALSE]_vars
    /\ [](isDestroyed =>
            /\ (tubeTimer1 > 0 /\ tubeTimer2 < MaxTimers) => ENABLED tubeTimeout1
            /\ tubeTimer2 > 0 => ENABLED tubeTimeout2
            /\ deathTimer > 0 => ENABLED deathTimeout
            /\ transitioning > 0 => ENABLED transitionDone)

\* the second tube callback has moved the destroyed player
C16_Witness ==
    /\ isDestroyed
    /\ last.op = "tubeTimeout2"
    /\ x = innerWidth + 1

\* the death callback of the destroyed player has requested the reload
C16_WitnessReload ==
    /\ isDestroyed
    /\ last.op = "deathTimeout"
    /\ transitioning = 1

\* C18: when a tube collision that touches the tube's bottom face has been
\* handled, x is the tube's x and gravityEnabled is false, from every
\* reachable prior state.
C18_TubePin ==
    [][(CollisionStep /\ collisionData'.id = "tube" /\ collisionData'.bottom)
       => (x' = collisionData'.x /\ gravityEnabled' = FALSE)]_vars

\* C19 as stated: for every touch-point record, a handled jump-platform
\* collision leaves movement.right false and gravityEnabled true when the
\* platform's left face is touched, and movement.left false and
\* gravityEnabled true when its right face is touched.
C19_Original ==
    [][(CollisionStep /\ collisionData'.id = "jumpPlatform") =>
         /\ collisionData'.left
              => (movement'.right = FALSE /\ gravityEnabled' = TRUE)
         /\ collisionData'.right
              => (movement'.left = FALSE /\ gravityEnabled' = TRUE)]_vars

\* C19 amended: the movement flags as stated for every touch-point record;
\* gravityEnabled is true when the own top face does not touch as well, and
\* false when it does.
C19_PlatformSides ==
    [][(CollisionStep /\ collisionData'.id = "jumpPlatform") =>
         /\ collisionData'.left => movement'.right = FALSE
         /\ collisionData'.right => movement'.left = FALSE
         /\ (collisionData'.left \/ collisionData'.right)
              => gravityEnabled' = ~collisionData'.top]_vars

\* standing on a platform, the player met the side of a platform: gravity
\* is on again and rightward motion is blocked
C19_Witness ==
    /\ last.op = "collisionAction"
    /\ last.down = FALSE
    /\ collisionData.id = "jumpPlatform"
    /\ collisionData.left
    /\ ~collisionData.top
    /\ movement.right = FALSE
    /\ gravityEnabled = TRUE

\* C14: a tube bottom-face collision schedules the first delayed action
\* only; the first action sets gravityEnabled to true and only its run
\* brings a second action into being; the second sets x to width + 1, and
\* nothing else moves x there; with timers that fire, a started sequence
\* leads to the teleport.
C14_TubeSequence ==
    /\ [][(CollisionStep /\ entersTube(collisionData'))
            => (tubeTimer1' = tubeTimer1 + 1 /\ tubeTimer2' = tubeTimer2)]_vars
    /\ [][tubeTimer2' > tubeTimer2
            => (last'.op = "tubeTimeout1" /\ tubeTimer1' = tubeTimer1 - 1
                /\ tubeTimer2' = tubeTimer2 + 1 /\ gravityEnabled' = TRUE)]_vars
    /\ [][(x' = innerWidth + 1 /\ x # innerWidth + 1)
            => (last'.op = "tubeTimeout2" /\ tubeTimer2 > 0
                /\ tubeTimer2' = tubeTimer2 - 1)]_vars
    /\ [][tubeTimer2' < tubeTimer2 => x' = innerWidth + 1]_vars
    /\ (tubeTimer1 > 0) ~> (last.op = "tubeTimeout2" /\ x = innerWidth + 1)

\* the second delayed action has run: the player is past the right edge
C14_Witness ==
    /\ last.op = "tubeTimeout2"
    /\ x = innerWidth + 1
    /\ collisionData.id = "tube"
    /\ collisionData.bottom
    /\ tubeTimer1 = 0
    /\ tubeTimer2 = 0

\* C15: isDying, once set, is cleared only by the completion of the level
\* transition that the delayed callback requested (never by the callback
\* itself or by a collision), and while it is set a callback is pending or a
\* transition in flight; with a timer that fires and a transition that
\* completes, isDying is eventually false again.
C15_DyingUntilTransition ==
    /\ [][(isDying /\ ~isDying')
            => (last'.op = "transitionDone"
                /\ transitioning' = transitioning - 1)]_vars
    /\ [](isDying => deathTimer + transitioning = 1)
    /\ isDying ~> ~isDying

\* the transition has completed and cleared the guard
C15_Witness ==
    /\ last.op = "transitionDone"
    /\ ~isDying
    /\ invincible
    /\ deathTimer = 0
    /\ transitioning = 0

\* C13 as stated: a tube's left (right) face blocks right (left), any other
\* target first permits both, and while movement.right (movement.left) is
\* false a movement step with the right (left) key active does not increase
\* (decrease) x.
C13_Original ==
    /\ [][(CollisionStep /\ collisionData'.id = "tube")
            => /\ collisionData'.left => movement'.right = FALSE
               /\ collisionData'.right => movement'.left = FALSE]_vars
    /\ [][(CollisionStep /\ collisionData'.id # "tube")
            => /\ movement'.left =
                    ~(collisionData'.id = "jumpPlatform"
                      /\ collisionData'.right)
               /\ movement'.right =
                    ~(collisionData'.id = "jumpPlatform"
                      /\ collisionData'.left)]_vars
    /\ [][(UpdateStep /\ ~movement.right
           /\ isActiveAnimation("d", pressedKeys, isIdle)) => x' <= x]_vars
    /\ [][(UpdateStep /\ ~movement.left
           /\ isActiveAnimation("a", pressedKeys, isIdle)) => x' >= x]_vars

\* C13: a tube's left (right) face blocks right (left), any other target
\* first permits both, and while movement.right (movement.left) is false the
\* lateral rules of a movement step with the right (left) key active do not
\* increase (decrease) x; x ends above its old value only by the left-edge
\* clamp (to 1), and below it only by the tube clamp (to tubeX - 1).
C13_TubeBlocking ==
    /\ [][(CollisionStep /\ collisionData'.id = "tube")
            => /\ collisionData'.left => movement'.right = FALSE
               /\ collisionData'.right => movement'.left = FALSE]_vars
    /\ [][(CollisionStep /\ collisionData'.id # "tube")
            => /\ movement'.left =
                    ~(collisionData'.id = "jumpPlatform"
                      /\ collisionData'.right)
               /\ movement'.right =
                    ~(collisionData'.id = "jumpPlatform"
                      /\ collisionData'.left)]_vars
    /\ [][(UpdateStep /\ ~movement.right
           /\ isActiveAnimation("d", pressedKeys, isIdle))
            => /\ last'.lateral <= x
               /\ x' > x => (last'.lateral < 0 /\ x' = 1)]_vars
    /\ [][(UpdateStep /\ ~movement.left
           /\ isActiveAnimation("a", pressedKeys, isIdle))
            => /\ last'.lateral >= x
               /\ x' < x => (last'.lateral \in tubeX..innerWidth
                             /\ x' = tubeX - 1)]_vars

\* blocked on the right by a tube's left face, the right key active, and a
\* movement step has left x where it was
C13_Witness ==
    /\ pc = "super"
    /\ last.op = "update"
    /\ collisionData.id = "tube"
    /\ collisionData.left
    /\ ~movement.right
    /\ pressedKeys = {"d"}
    /\ ~isIdle
    /\ x = last.lateral

\* blocked on the left, the left key active, and the tube clamp has moved
\* the player one to the left of the tube
C13_WitnessClamp ==
    /\ pc = "super"
    /\ last.op = "update"
    /\ ~movement.left
    /\ "a" \in pressedKeys
    /\ ~isIdle
    /\ last.lateral = tubeX
    /\ x = tubeX - 1

\* C12: destroy takes the player's two key listeners off the document; a
\* key event is handled only by a player that is registered and not
\* destroyed, no key event is deliverable to a destroyed player, and over
\* the construct/destroy cycles of level reloads at most one player, the
\* current one, is registered.
C12_ListenersReleased ==
    /\ [][(~isDestroyed /\ isDestroyed')
            => (generation \notin listeners' /\ ~listening')]_vars
    /\ [][(KeyEvent("keydown") \/ KeyEvent("keyup"))
            => (~isDestroyed /\ generation \in listeners)]_vars
    /\ [][(isDestroyed /\ isDestroyed')
            => UNCHANGED <<posVars, keyVars, parallaxVars>>]_vars
    /\ [](isDestroyed => (~ENABLED KeyDown /\ ~ENABLED KeyUp))
    /\ [](Cardinality(listeners) <= 1 /\ listeners \subseteq {generation})

\* after a reload, the second player alone has handled a key press
C12_Witness ==
    /\ generation = 2
    /\ listeners = {2}
    /\ ~isDestroyed
    /\ last.op = "keydown"
    /\ pressedKeys # {}

\* a destroyed player with keys still latched, no listener registered
C12_WitnessDestroyed ==
    /\ isDestroyed
    /\ listeners = {}
    /\ pressedKeys # {}
    /\ last.op = "destroy"
====
